---- MODULE Spec2Model ----
(***************************************************************************)
(* Model of the hotel / review HTTP service of src/main.py.                *)
(*                                                                         *)
(* The store is the pair of collections `hotels` and `reviews`.  Every     *)
(* handler is a coroutine: it runs without interruption between two        *)
(* awaited store calls, so each action below is one such stretch (local    *)
(* validation, one store call, and whatever follows up to the next await   *)
(* or the response).  Several requests are in flight at once, one per      *)
(* slot of `req`; `resp` is the response a handler has written and the     *)
(* server has not yet sent.                                                *)
(*                                                                         *)
(* Strings are tuples of one-character strings.  JSON numbers are held in  *)
(* half units (the number 2.5 is 5), so that non-integer ratings exist.    *)
(***************************************************************************)
EXTENDS Integers, Sequences, FiniteSets, TLC

VARIABLES hotels, reviews, nextId, req, resp

vars == <<hotels, reviews, nextId, req, resp>>

-----------------------------------------------------------------------------
(* Bounds *)

MaxId == 3

NumProcs == 2

Procs == 1..NumProcs

ObjectIds == 1..MaxId

-----------------------------------------------------------------------------
(* Identifiers *)

BadId == 0

PathIds == ObjectIds \cup {BadId}

ObjectIdIsValid(s) == s # BadId

Oid(i) == [t |-> "oid", v |-> i]

JStr(i) == [t |-> "str", v |-> i]

-----------------------------------------------------------------------------
(* Validation *)

Digits == {"0", "1", "2", "3", "4", "5", "6", "7", "8", "9"}

NoAt(s, a, b) == \A k \in a..b : s[k] # "@"

validate_email(email) ==
    \E i \in 2..Len(email) :
        /\ email[i] = "@"
        /\ NoAt(email, 1, i - 1)
        /\ \E j \in (i + 2)..(Len(email) - 1) :
              /\ NoAt(email, i + 1, j - 1)
              /\ email[j] = "."
              /\ email[j + 1] # "@"

AllDigits(s, a, b) == \A k \in a..b : s[k] \in Digits

\* the same match with the quantifier {5,15}
validate_phone_min5(phone) ==
    LET n == IF Len(phone) > 0 /\ phone[Len(phone)] = "\n"
             THEN Len(phone) - 1 ELSE Len(phone)
        from == IF n > 0 /\ phone[1] = "+" THEN 2 ELSE 1
    IN  /\ n - from + 1 >= 5
        /\ n - from + 1 <= 15
        /\ AllDigits(phone, from, n)

validate_phone(phone) ==
    LET n == IF Len(phone) > 0 /\ phone[Len(phone)] = "\n"
             THEN Len(phone) - 1 ELSE Len(phone)
        from == IF n > 0 /\ phone[1] = "+" THEN 2 ELSE 1
    IN  /\ n - from + 1 >= 6
        /\ n - from + 1 <= 15
        /\ AllDigits(phone, from, n)

-----------------------------------------------------------------------------
(* Documents and request bodies.  A document is a record whose `has` field *)
(* is the set of keys present; an absent key holds a fixed filler value.   *)

HotelFields == {"name", "city", "phone", "email", "stars"}

ReviewFields == {"user", "rating", "hotel_id"}

JNum(h) == [t |-> "num", v |-> h]

ValidPhone == <<"1", "2", "3", "4", "5", "6">>

ShortPhone == <<"1", "2", "3", "4", "5">>

LetterPhone == <<"+", "1", "2", "3", "4", "5", "x">>

ValidEmail == <<"a", "@", "b", ".", "c">>

NoDotEmail == <<"a", "@", "b">>

NoLocalEmail == <<"@", "b", ".", "c">>

\* a JSON object with the given keys; a key that is absent holds <<>>
HotelDoc(has, city, phone, email) ==
    [has |-> has,
     name |-> IF "name" \in has THEN <<"A">> ELSE <<>>,
     city |-> IF "city" \in has THEN city ELSE <<>>,
     phone |-> IF "phone" \in has THEN phone ELSE <<>>,
     email |-> IF "email" \in has THEN email ELSE <<>>,
     stars |-> IF "stars" \in has THEN <<"5">> ELSE <<>>]

Required == {"name", "city", "phone", "email"}

HotelDocSamples ==
    {HotelDoc({}, <<>>, <<>>, <<>>),
     HotelDoc(Required, <<"R">>, ValidPhone, ValidEmail),
     HotelDoc(Required \ {"name"}, <<"R">>, ValidPhone, ValidEmail),
     HotelDoc(Required \ {"city"}, <<"R">>, ValidPhone, ValidEmail),
     HotelDoc(Required \ {"phone"}, <<"R">>, ValidPhone, ValidEmail),
     HotelDoc(Required \ {"email"}, <<"R">>, ValidPhone, ValidEmail),
     HotelDoc(Required, <<"R">>, ValidPhone, NoDotEmail),
     HotelDoc(Required, <<"R">>, ShortPhone, ValidEmail),
     HotelDoc(Required, <<"R">>, LetterPhone, NoLocalEmail),
     HotelDoc({"stars"}, <<>>, <<>>, <<>>),
     HotelDoc({"email"}, <<>>, <<>>, NoLocalEmail),
     HotelDoc({"phone", "stars"}, <<>>, LetterPhone, <<>>),
     HotelDoc({"phone", "email"}, <<>>, ValidPhone, ValidEmail)}

ReviewDoc(has, user, rating) ==
    [has |-> has,
     user |-> IF "user" \in has THEN user ELSE <<>>,
     rating |-> IF "rating" \in has THEN rating ELSE JStr(0),
     hotel_id |-> IF "hotel_id" \in has THEN JStr(1) ELSE JStr(0)]

\* the ratings 0, 1, 2.5, 5 and 6 in half units, and a JSON string
ReviewDocSamples ==
    {ReviewDoc({}, <<>>, JStr(0)),
     ReviewDoc({"rating"}, <<>>, JNum(10)),
     ReviewDoc({"user"}, ValidEmail, JStr(0)),
     ReviewDoc({"user", "rating"}, NoDotEmail, JNum(10)),
     ReviewDoc({"user", "rating"}, ValidEmail, JNum(0)),
     ReviewDoc({"user", "rating"}, ValidEmail, JNum(12)),
     ReviewDoc({"user", "rating"}, ValidEmail, JStr(3)),
     ReviewDoc({"user", "rating"}, ValidEmail, JNum(2)),
     ReviewDoc({"user", "rating"}, ValidEmail, JNum(5)),
     ReviewDoc({"user", "rating"}, ValidEmail, JNum(10)),
     ReviewDoc({"user", "rating", "hotel_id"}, ValidEmail, JNum(10)),
     ReviewDoc({"hotel_id"}, <<>>, JStr(0)),
     ReviewDoc({"rating"}, <<>>, JNum(2)),
     ReviewDoc({"rating"}, <<>>, JNum(12))}

\* request.body: either text json.loads rejects, or a JSON object
HotelBodies == {[ok |-> FALSE, doc |-> HotelDoc({}, <<>>, <<>>, <<>>)]}
                 \cup {[ok |-> TRUE, doc |-> d] : d \in HotelDocSamples}

ReviewBodies == {[ok |-> FALSE, doc |-> ReviewDoc({}, <<>>, JStr(0))]}
                  \cup {[ok |-> TRUE, doc |-> d] : d \in ReviewDocSamples}

\* the two behaviours of the server on {"$set": {}}
Strictness(body) == IF body.ok /\ body.doc.has = {} THEN BOOLEAN ELSE {FALSE}

\* {"$set": data} on a hotel document
SetHotel(doc, data) ==
    [has |-> doc.has \cup data.has,
     name |-> IF "name" \in data.has THEN data.name ELSE doc.name,
     city |-> IF "city" \in data.has THEN data.city ELSE doc.city,
     phone |-> IF "phone" \in data.has THEN data.phone ELSE doc.phone,
     email |-> IF "email" \in data.has THEN data.email ELSE doc.email,
     stars |-> IF "stars" \in data.has THEN data.stars ELSE doc.stars]

\* {"$set": data} on a review document
SetReview(doc, data) ==
    [has |-> doc.has \cup data.has,
     user |-> IF "user" \in data.has THEN data.user ELSE doc.user,
     rating |-> IF "rating" \in data.has THEN data.rating ELSE doc.rating,
     hotel_id |-> IF "hotel_id" \in data.has THEN data.hotel_id ELSE doc.hotel_id]

-----------------------------------------------------------------------------
(* Store operations *)

\* reviews.find({"hotel_id": ObjectId(hotel_id)})
FindReviews(revs, hotel_id) == {r \in DOMAIN revs : revs[r].hotel_id = Oid(hotel_id)}

\* reviews.delete_many({"hotel_id": ObjectId(hotel_id)})
DeleteMany(revs, hotel_id) ==
    [r \in DOMAIN revs \ FindReviews(revs, hotel_id) |-> revs[r]]

\* delete_one({"_id": ObjectId(id)})
DeleteOne(coll, id) == [k \in DOMAIN coll \ {id} |-> coll[k]]

\* insert_one(doc) under a fresh _id
InsertOne(coll, id, doc) == [k \in DOMAIN coll \cup {id} |-> IF k = id THEN doc ELSE coll[k]]

\* the filter {"_id": ObjectId(review_id)} alone
MatchReview_by_id(revs, review_id, hotel_id) == review_id \in DOMAIN revs

\* the filter {"_id": ObjectId(review_id), "hotel_id": ObjectId(hotel_id)}
MatchReview(revs, review_id, hotel_id) ==
    review_id \in DOMAIN revs /\ revs[review_id].hotel_id = Oid(hotel_id)

\* 1 <= data["rating"] <= 5, defined for numbers only
RatingInRange(rating) == 2 <= rating.v /\ rating.v <= 10

\* comparing a str with an int raises TypeError
RatingRaises(rating) == rating.t # "num"

-----------------------------------------------------------------------------
(* Average rating *)

RECURSIVE SumRating(_, _)
SumRating(revs, S) ==
    IF S = {} THEN 0
    ELSE LET r == CHOOSE x \in S : TRUE
         IN  revs[r].rating.v + SumRating(revs, S \ {r})

\* int() of num/den: the fraction is dropped
PyRound_floor(num, den) == num \div den

\* rounding of num/den with ties going up
PyRound_half_up(num, den) == (2 * num + den) \div (2 * den)

\* Python's round() of num/den: to the nearest integer, ties to the even one
PyRound(num, den) ==
    LET q == num \div den
        r == num % den
    IN  IF 2 * r < den THEN q
        ELSE IF 2 * r > den THEN q + 1
        ELSE IF q % 2 = 0 THEN q ELSE q + 1

\* lines 84-89; None is <<>>
AvgRatingById(revs, S) ==
    IF Cardinality(S) > 0
    THEN <<PyRound(SumRating(revs, S), 2 * Cardinality(S))>>
    ELSE <<>>

\* lines 119-124
AvgRatingList(revs, S) ==
    IF Cardinality(S) > 0
    THEN <<PyRound(SumRating(revs, S), 2 * Cardinality(S))>>
    ELSE <<>>

-----------------------------------------------------------------------------
(* Requests in flight and the last response written *)

Idle == [op |-> "none", pc |-> "idle", hid |-> BadId, rid |-> BadId,
         pending |-> <<>>, acc |-> <<>>]

InFlight(op, pc, hid, rid) == [Idle EXCEPT !.op = op, !.pc = pc, !.hid = hid, !.rid = rid]

\* what the client sees: the request line it sent, the status and the body;
\* for the list, `rating` is its rating argument and `found` the ids of the
\* hotels the query selected, before the rating filter
Response(op, status, hid, rid, error) ==
    [op |-> op, status |-> status, hid |-> hid, rid |-> rid, rating |-> <<>>,
     found |-> {}, error |-> error, avg_rating |-> <<>>, hotels |-> <<>>]

NoResponse == Response("none", 0, BadId, BadId, "")

\* a new request takes the first free slot
FreeSlot(p) ==
    /\ resp = NoResponse
    /\ req[p].pc = "idle"
    /\ \A q \in Procs : q < p => req[q].pc # "idle"

At(p, op, pc) == req[p].op = op /\ req[p].pc = pc

\* the handler returns: the response is written and the slot is free again
Finish(p, r) == resp = NoResponse /\ resp' = r /\ req' = [req EXCEPT ![p] = Idle]

\* the handler awaits its next store call
Await(p, r) == req' = [req EXCEPT ![p] = r] /\ UNCHANGED resp

\* the server sends the response that was written
Deliver ==
    /\ resp # NoResponse
    /\ resp' = NoResponse
    /\ UNCHANGED <<hotels, reviews, nextId, req>>

Init ==
    /\ hotels = <<>>
    /\ reviews = <<>>
    /\ nextId = 1
    /\ req = [p \in Procs |-> Idle]
    /\ resp = NoResponse

-----------------------------------------------------------------------------
(* HotelHandler.get, by id *)

HotelGet_find(p, hotel_id) ==
    /\ FreeSlot(p)
    /\ IF ~ObjectIdIsValid(hotel_id)
       THEN Finish(p, Response("HotelGet", 400, hotel_id, BadId, "ID hotel non valido"))
       ELSE IF hotel_id \notin DOMAIN hotels
       THEN Finish(p, Response("HotelGet", 404, hotel_id, BadId, "Hotel non trovato"))
       ELSE Await(p, InFlight("HotelGet", "reviews", hotel_id, BadId))
    /\ UNCHANGED <<hotels, reviews, nextId>>

HotelGet_reviews(p) ==
    /\ At(p, "HotelGet", "reviews")
    /\ Finish(p, [Response("HotelGet", 200, req[p].hid, BadId, "") EXCEPT
                     !.avg_rating = AvgRatingById(reviews, FindReviews(reviews, req[p].hid))])
    /\ UNCHANGED <<hotels, reviews, nextId>>

-----------------------------------------------------------------------------
(* HotelHandler.get, the list *)

Lower(c) == IF c = "R" THEN "r" ELSE IF c = "M" THEN "m" ELSE IF c = "A" THEN "a" ELSE c

\* {"$regex": pat, "$options": "i"} for a pattern without metacharacters
RegexI(pat, s) ==
    \E i \in 0..(Len(s) - Len(pat)) :
        \A k \in 1..Len(pat) : Lower(s[i + k]) = Lower(pat[k])

\* every hotel of the model is in city "R" and is named "A"
QuerySamples == {<<>>, <<"r">>}

RatingQuerySamples == {<<>>, <<"2">>, <<"3">>, <<"4">>, <<"x">>}

DigitValue(c) ==
    CASE c = "0" -> 0 [] c = "1" -> 1 [] c = "2" -> 2 [] c = "3" -> 3 [] c = "4" -> 4
      [] c = "5" -> 5 [] c = "6" -> 6 [] c = "7" -> 7 [] c = "8" -> 8 [] c = "9" -> 9

\* int(rating) raises ValueError
IntRaises(s) == \E k \in 1..Len(s) : s[k] \notin Digits

RECURSIVE ParseInt(_)
ParseInt(s) ==
    IF Len(s) = 0 THEN 0
    ELSE 10 * ParseInt(SubSeq(s, 1, Len(s) - 1)) + DigitValue(s[Len(s)])

RECURSIVE SortedIds(_)
SortedIds(S) ==
    IF S = {} THEN <<>>
    ELSE LET m == CHOOSE x \in S : \A y \in S : x <= y
         IN  <<m>> \o SortedIds(S \ {m})

\* hotels.find(query), in _id order
FindHotels(city, name) ==
    SortedIds({h \in DOMAIN hotels :
        /\ (city # <<>>) => ("city" \in hotels[h].has /\ RegexI(city, hotels[h].city))
        /\ (name # <<>>) => ("name" \in hotels[h].has /\ RegexI(name, hotels[h].name))})

\* lines 128-134
ListResponse(rating, acc) ==
    IF rating # <<>> /\ IntRaises(rating)
    THEN [Response("HotelList", 500, BadId, BadId, "") EXCEPT !.rating = rating]
    ELSE [Response("HotelList", 200, BadId, BadId, "") EXCEPT
             !.rating = rating,
             !.found = {acc[i].id : i \in DOMAIN acc},
             !.hotels = IF rating # <<>>
                        THEN SelectSeq(acc, LAMBDA h : h.avg_rating = <<ParseInt(rating)>>)
                        ELSE acc]

\* the rating argument is read at line 129, after the loop
HotelList_find(p, city, name) ==
    /\ FreeSlot(p)
    /\ LET found == FindHotels(city, name)
       IN  IF found = <<>>
           THEN \E rating \in RatingQuerySamples : Finish(p, ListResponse(rating, <<>>))
           ELSE Await(p, [InFlight("HotelList", "reviews", BadId, BadId) EXCEPT
                             !.pending = found])
    /\ UNCHANGED <<hotels, reviews, nextId>>

HotelList_reviews(p) ==
    /\ At(p, "HotelList", "reviews")
    /\ LET h == Head(req[p].pending)
           acc == Append(req[p].acc,
                         [id |-> h,
                          avg_rating |-> AvgRatingList(reviews, FindReviews(reviews, h))])
       IN  IF Tail(req[p].pending) = <<>>
           THEN \E rating \in RatingQuerySamples : Finish(p, ListResponse(rating, acc))
           ELSE Await(p, [req[p] EXCEPT !.pending = Tail(@), !.acc = acc])
    /\ UNCHANGED <<hotels, reviews, nextId>>

-----------------------------------------------------------------------------
(* HotelHandler.post *)

HotelPost_insert(p, body) ==
    /\ FreeSlot(p)
    /\ LET data == body.doc
           Reject(msg) ==
               /\ Finish(p, Response("HotelPost", 400, BadId, BadId, msg))
               /\ UNCHANGED <<hotels, nextId>>
       IN  IF ~body.ok THEN Reject("JSON non valido")
           ELSE IF "name" \notin data.has THEN Reject("Manca campo obbligatorio: name")
           ELSE IF "city" \notin data.has THEN Reject("Manca campo obbligatorio: city")
           ELSE IF "phone" \notin data.has THEN Reject("Manca campo obbligatorio: phone")
           ELSE IF "email" \notin data.has THEN Reject("Manca campo obbligatorio: email")
           ELSE IF ~validate_email(data.email) THEN Reject("Email non valida")
           ELSE IF ~validate_phone(data.phone) THEN Reject("Telefono non valido")
           ELSE /\ nextId <= MaxId
                /\ hotels' = InsertOne(hotels, nextId, data)
                /\ nextId' = nextId + 1
                /\ Await(p, InFlight("HotelPost", "find", nextId, BadId))
    /\ UNCHANGED reviews

HotelPost_find(p) ==
    /\ At(p, "HotelPost", "find")
    /\ IF req[p].hid \in DOMAIN hotels
       THEN Finish(p, Response("HotelPost", 201, req[p].hid, BadId, ""))
       ELSE Finish(p, Response("HotelPost", 500, req[p].hid, BadId, ""))
    /\ UNCHANGED <<hotels, reviews, nextId>>

-----------------------------------------------------------------------------
(* HotelHandler.put *)

\* whether the server takes an update whose $set document is empty
EmptySetRaises(data, strict) == data.has = {} /\ strict

HotelPut_update(p, hotel_id, body, strict) ==
    /\ FreeSlot(p)
    /\ LET data == body.doc
           Reject(status, msg) ==
               /\ Finish(p, Response("HotelPut", status, hotel_id, BadId, msg))
               /\ UNCHANGED hotels
       IN  IF ~ObjectIdIsValid(hotel_id) THEN Reject(400, "ID non valido")
           ELSE IF ~body.ok THEN Reject(400, "JSON non valido")
           ELSE IF "email" \in data.has /\ ~validate_email(data.email)
           THEN Reject(400, "Email non valida")
           ELSE IF "phone" \in data.has /\ ~validate_phone(data.phone)
           THEN Reject(400, "Telefono non valido")
           ELSE IF EmptySetRaises(data, strict) THEN Reject(500, "")
           ELSE IF hotel_id \notin DOMAIN hotels THEN Reject(404, "Hotel non trovato")
           ELSE /\ hotels' = [hotels EXCEPT ![hotel_id] = SetHotel(@, data)]
                /\ Await(p, InFlight("HotelPut", "cascade", hotel_id, BadId))
    /\ UNCHANGED <<reviews, nextId>>

\* the update without its delete_many
HotelPut_cascade_none(p) ==
    /\ At(p, "HotelPut", "cascade")
    /\ Await(p, [req[p] EXCEPT !.pc = "find"])
    /\ UNCHANGED <<hotels, reviews, nextId>>

HotelPut_cascade(p) ==
    /\ At(p, "HotelPut", "cascade")
    /\ reviews' = DeleteMany(reviews, req[p].hid)
    /\ Await(p, [req[p] EXCEPT !.pc = "find"])
    /\ UNCHANGED <<hotels, nextId>>

HotelPut_find(p) ==
    /\ At(p, "HotelPut", "find")
    /\ IF req[p].hid \in DOMAIN hotels
       THEN Finish(p, Response("HotelPut", 200, req[p].hid, BadId, ""))
       ELSE Finish(p, Response("HotelPut", 500, req[p].hid, BadId, ""))
    /\ UNCHANGED <<hotels, reviews, nextId>>

-----------------------------------------------------------------------------
(* HotelHandler.delete *)

\* the delete answering 404 when delete_one removed nothing
HotelDelete_hotel_404(p, hotel_id) ==
    /\ FreeSlot(p)
    /\ IF ~ObjectIdIsValid(hotel_id)
       THEN /\ Finish(p, Response("HotelDelete", 400, hotel_id, BadId, "ID non valido"))
            /\ UNCHANGED hotels
       ELSE IF hotel_id \notin DOMAIN hotels
       THEN /\ Finish(p, Response("HotelDelete", 404, hotel_id, BadId, "Hotel non trovato"))
            /\ UNCHANGED hotels
       ELSE /\ hotels' = DeleteOne(hotels, hotel_id)
            /\ Await(p, InFlight("HotelDelete", "cascade", hotel_id, BadId))
    /\ UNCHANGED <<reviews, nextId>>

HotelDelete_hotel(p, hotel_id) ==
    /\ FreeSlot(p)
    /\ IF ~ObjectIdIsValid(hotel_id)
       THEN /\ Finish(p, Response("HotelDelete", 400, hotel_id, BadId, "ID non valido"))
            /\ UNCHANGED hotels
       ELSE /\ hotels' = DeleteOne(hotels, hotel_id)
            /\ Await(p, InFlight("HotelDelete", "cascade", hotel_id, BadId))
    /\ UNCHANGED <<reviews, nextId>>

HotelDelete_cascade(p) ==
    /\ At(p, "HotelDelete", "cascade")
    /\ reviews' = DeleteMany(reviews, req[p].hid)
    /\ Finish(p, Response("HotelDelete", 200, req[p].hid, BadId, ""))
    /\ UNCHANGED <<hotels, nextId>>

-----------------------------------------------------------------------------
(* HotelReviewsHandler.get *)

ReviewGet(p, hotel_id, review_id) ==
    /\ FreeSlot(p)
    /\ IF ~ObjectIdIsValid(hotel_id)
       THEN Finish(p, Response("ReviewGet", 400, hotel_id, review_id, "Hotel ID non valido"))
       ELSE IF ~ObjectIdIsValid(review_id)
       THEN Finish(p, Response("ReviewGet", 400, hotel_id, review_id, "Review ID non valido"))
       ELSE IF ~MatchReview(reviews, review_id, hotel_id)
       THEN Finish(p, Response("ReviewGet", 404, hotel_id, review_id, "Recensione non trovata"))
       ELSE Finish(p, Response("ReviewGet", 200, hotel_id, review_id, ""))
    /\ UNCHANGED <<hotels, reviews, nextId>>

ReviewList(p, hotel_id) ==
    /\ FreeSlot(p)
    /\ IF ~ObjectIdIsValid(hotel_id)
       THEN Finish(p, Response("ReviewList", 400, hotel_id, BadId, "Hotel ID non valido"))
       ELSE Finish(p, Response("ReviewList", 200, hotel_id, BadId, ""))
    /\ UNCHANGED <<hotels, reviews, nextId>>

-----------------------------------------------------------------------------
(* HotelReviewsHandler.post *)

ReviewPost_hotel(p, hotel_id) ==
    /\ FreeSlot(p)
    /\ IF ~ObjectIdIsValid(hotel_id)
       THEN Finish(p, Response("ReviewPost", 400, hotel_id, BadId, "Hotel ID non valido"))
       ELSE IF hotel_id \notin DOMAIN hotels
       THEN Finish(p, Response("ReviewPost", 404, hotel_id, BadId, "Hotel non trovato"))
       ELSE Await(p, InFlight("ReviewPost", "insert", hotel_id, BadId))
    /\ UNCHANGED <<hotels, reviews, nextId>>

\* lines 323-324
NewReview(data, hotel_id) ==
    [data EXCEPT !.has = @ \cup {"hotel_id"}, !.hotel_id = Oid(hotel_id)]

ReviewPost_insert(p, body) ==
    /\ At(p, "ReviewPost", "insert")
    /\ LET data == body.doc
           Reject(status, msg) ==
               /\ Finish(p, Response("ReviewPost", status, req[p].hid, BadId, msg))
               /\ UNCHANGED <<reviews, nextId>>
       IN  IF ~body.ok THEN Reject(400, "JSON non valido")
           ELSE IF "user" \notin data.has THEN Reject(400, "Campo mancante: user")
           ELSE IF "rating" \notin data.has THEN Reject(400, "Campo mancante: rating")
           ELSE IF ~validate_email(data.user) THEN Reject(400, "Email non valida")
           ELSE IF RatingRaises(data.rating) THEN Reject(500, "")
           ELSE IF ~RatingInRange(data.rating)
           THEN Reject(400, "Rating deve essere tra 1 e 5")
           ELSE /\ nextId <= MaxId
                /\ reviews' = InsertOne(reviews, nextId, NewReview(data, req[p].hid))
                /\ nextId' = nextId + 1
                /\ Await(p, [req[p] EXCEPT !.pc = "find", !.rid = nextId])
    /\ UNCHANGED hotels

ReviewPost_find(p) ==
    /\ At(p, "ReviewPost", "find")
    /\ IF req[p].rid \in DOMAIN reviews
       THEN Finish(p, Response("ReviewPost", 201, req[p].hid, req[p].rid, ""))
       ELSE Finish(p, Response("ReviewPost", 500, req[p].hid, req[p].rid, ""))
    /\ UNCHANGED <<hotels, reviews, nextId>>

-----------------------------------------------------------------------------
(* HotelReviewsHandler.put *)

ReviewPut_update(p, hotel_id, review_id, body, strict) ==
    /\ FreeSlot(p)
    /\ LET data == body.doc
           Reject(status, msg) ==
               /\ Finish(p, Response("ReviewPut", status, hotel_id, review_id, msg))
               /\ UNCHANGED reviews
       IN  IF ~ObjectIdIsValid(hotel_id) \/ ~ObjectIdIsValid(review_id)
           THEN Reject(400, "ID non valido")
           ELSE IF ~body.ok THEN Reject(400, "JSON non valido")
           ELSE IF "user" \in data.has /\ ~validate_email(data.user)
           THEN Reject(400, "Email non valida")
           ELSE IF "rating" \in data.has /\ RatingRaises(data.rating) THEN Reject(500, "")
           ELSE IF "rating" \in data.has /\ ~RatingInRange(data.rating)
           THEN Reject(400, "Rating non valido")
           ELSE IF EmptySetRaises(data, strict) THEN Reject(500, "")
           ELSE IF ~MatchReview(reviews, review_id, hotel_id)
           THEN Reject(404, "Recensione non trovata")
           ELSE /\ reviews' = [reviews EXCEPT ![review_id] = SetReview(@, data)]
                /\ Await(p, InFlight("ReviewPut", "find", hotel_id, review_id))
    /\ UNCHANGED <<hotels, nextId>>

ReviewPut_find(p) ==
    /\ At(p, "ReviewPut", "find")
    /\ IF req[p].rid \in DOMAIN reviews
       THEN Finish(p, Response("ReviewPut", 200, req[p].hid, req[p].rid, ""))
       ELSE Finish(p, Response("ReviewPut", 500, req[p].hid, req[p].rid, ""))
    /\ UNCHANGED <<hotels, reviews, nextId>>

-----------------------------------------------------------------------------
(* HotelReviewsHandler.delete *)

ReviewDelete(p, hotel_id, review_id) ==
    /\ FreeSlot(p)
    /\ IF ~ObjectIdIsValid(hotel_id) \/ ~ObjectIdIsValid(review_id)
       THEN /\ Finish(p, Response("ReviewDelete", 400, hotel_id, review_id, "ID non valido"))
            /\ UNCHANGED reviews
       ELSE IF ~MatchReview(reviews, review_id, hotel_id)
       THEN /\ Finish(p, Response("ReviewDelete", 404, hotel_id, review_id,
                                  "Recensione non trovata"))
            /\ UNCHANGED reviews
       ELSE /\ reviews' = DeleteOne(reviews, review_id)
            /\ Finish(p, Response("ReviewDelete", 200, hotel_id, review_id, ""))
    /\ UNCHANGED <<hotels, nextId>>

-----------------------------------------------------------------------------
(* The service: any request may arrive, any handler in flight may resume *)

\* a request arrives
Arrive(p) ==
    /\ FreeSlot(p)
    /\ \/ \E hotel_id \in PathIds : HotelGet_find(p, hotel_id)
       \/ \E city \in QuerySamples, name \in QuerySamples : HotelList_find(p, city, name)
       \/ \E body \in HotelBodies : HotelPost_insert(p, body)
       \/ \E hotel_id \in PathIds, body \in HotelBodies :
              \E strict \in Strictness(body) : HotelPut_update(p, hotel_id, body, strict)
       \/ \E hotel_id \in PathIds : HotelDelete_hotel(p, hotel_id)
       \/ \E hotel_id \in PathIds, review_id \in PathIds : ReviewGet(p, hotel_id, review_id)
       \/ \E hotel_id \in PathIds : ReviewList(p, hotel_id)
       \/ \E hotel_id \in PathIds : ReviewPost_hotel(p, hotel_id)
       \/ \E hotel_id \in PathIds, review_id \in PathIds, body \in ReviewBodies :
              \E strict \in Strictness(body) :
                  ReviewPut_update(p, hotel_id, review_id, body, strict)
       \/ \E hotel_id \in PathIds, review_id \in PathIds :
              ReviewDelete(p, hotel_id, review_id)

\* a handler in flight resumes after its awaited store call
Resume(p) ==
    /\ req[p].pc # "idle"
    /\ \/ HotelGet_reviews(p)
       \/ HotelList_reviews(p)
       \/ HotelPost_find(p)
       \/ HotelPut_cascade(p)
       \/ HotelPut_find(p)
       \/ HotelDelete_cascade(p)
       \/ \E body \in ReviewBodies : ReviewPost_insert(p, body)
       \/ ReviewPost_find(p)
       \/ ReviewPut_find(p)

Next == (\E p \in Procs : Arrive(p) \/ Resume(p)) \/ Deliver

Spec == Init /\ [][Next]_vars

\* the same service when no two requests overlap: a request arrives only
\* when no handler is in flight
Quiet == \A p \in Procs : req[p].pc = "idle"

SerialNext == (\E p \in Procs : (Quiet /\ Arrive(p)) \/ Resume(p)) \/ Deliver

SerialSpec == Init /\ [][SerialNext]_vars

-----------------------------------------------------------------------------
(* Reading a database that already holds hotels and reviews *)

MaxSeedReviews == 3

SeedHotel == HotelDoc(Required, <<"R">>, ValidPhone, ValidEmail)

\* reviews as HotelReviewsHandler.post stores them: the ratings its range
\* check lets through, whole and half values from 1 to 5, in half units
SeedReviews ==
    {NewReview(ReviewDoc({"user", "rating"}, ValidEmail, JNum(n)), h) :
        n \in {n \in 0..12 : RatingInRange(JNum(n))}, h \in {1, 2}}

ReadInit ==
    /\ hotels = [h \in {1, 2} |-> SeedHotel]
    /\ reviews \in UNION {[3..(2 + k) -> SeedReviews] : k \in 0..MaxSeedReviews}
    /\ \A i, j \in DOMAIN reviews :
           i < j => /\ reviews[i].hotel_id.v <= reviews[j].hotel_id.v
                    /\ reviews[i].hotel_id.v = reviews[j].hotel_id.v
                          => reviews[i].rating.v <= reviews[j].rating.v
    /\ nextId = 3 + Cardinality(DOMAIN reviews)
    /\ req = [p \in Procs |-> Idle]
    /\ resp = NoResponse

ArriveRead(p) ==
    /\ FreeSlot(p)
    /\ \/ \E hotel_id \in PathIds : HotelGet_find(p, hotel_id)
       \/ \E city \in QuerySamples, name \in QuerySamples : HotelList_find(p, city, name)

ResumeRead(p) ==
    /\ req[p].pc # "idle"
    /\ \/ HotelGet_reviews(p)
       \/ HotelList_reviews(p)

ReadNext == (\E p \in Procs : (Quiet /\ ArriveRead(p)) \/ ResumeRead(p)) \/ Deliver

ReadSpec == ReadInit /\ [][ReadNext]_vars

-----------------------------------------------------------------------------
(* Properties *)

\* a step in which a handler writes its response
Wrote == resp = NoResponse /\ resp' # NoResponse

\* a step in which slot p goes from one point of a handler to another
Moved(p, op, from, to) ==
    /\ req[p].pc = from
    /\ from # "idle" => req[p].op = op
    /\ req'[p].pc = to
    /\ to # "idle" => req'[p].op = op

\* what carries the path ids of the request that slot p has just worked on
Target(p) == IF resp' # NoResponse THEN resp' ELSE req'[p]

InvalidEmails == {NoDotEmail, NoLocalEmail}

InvalidPhones == {ShortPhone, LetterPhone}

HotelBodyRejected(body, create) ==
    \/ ~body.ok
    \/ create /\ ~(Required \subseteq body.doc.has)
    \/ "email" \in body.doc.has /\ body.doc.email \in InvalidEmails
    \/ "phone" \in body.doc.has /\ body.doc.phone \in InvalidPhones

ReviewBodyRejected(body, create) ==
    \/ ~body.ok
    \/ create /\ ~({"user", "rating"} \subseteq body.doc.has)
    \/ "user" \in body.doc.has /\ body.doc.user \in InvalidEmails
    \/ /\ "rating" \in body.doc.has
       /\ body.doc.rating.t = "num"
       /\ body.doc.rating.v \notin 2..10

(* C1: once DELETE /hotels/{id} with a well-formed id has answered, the hotel *)
(* is absent and no review whose hotel_id is that id is in the store,         *)
(* whatever requests preceded or overlapped the delete.                       *)
C1_DeleteLeavesNoReview ==
    (resp.op = "HotelDelete" /\ resp.status = 200) =>
        /\ resp.hid \notin DOMAIN hotels
        /\ FindReviews(reviews, resp.hid) = {}

(* C2: a review is inserted only under a hotel that exists at the moment of  *)
(* the insertion, and POST /hotels/{id}/reviews for a well-formed id of a    *)
(* hotel that does not exist answers 404 and inserts nothing, also when      *)
(* deletes and creates for the same hotel interleave.                        *)
C2_InsertedReviewHasHotel ==
    [][/\ \A r \in DOMAIN reviews' \ DOMAIN reviews :
              \E h \in DOMAIN hotels : reviews'[r].hotel_id = Oid(h)
       /\ \A p \in Procs :
              (ReviewPost_hotel(p, resp'.hid) /\ Wrote /\ ObjectIdIsValid(resp'.hid)
                   /\ resp'.hid \notin DOMAIN hotels)
                  => resp'.status = 404 /\ UNCHANGED reviews]_vars

(* C3: when PUT /hotels/{id} succeeds, whatever fields the body carried, no  *)
(* review whose hotel_id is that id is left when the response is written,    *)
(* and no step of the request touches a review of another hotel.             *)
C3_PutCascades ==
    [][\A p \in Procs :
          (req[p].op = "HotelPut" \/ req'[p].op = "HotelPut") =>
              LET h == IF req[p].op = "HotelPut" THEN req[p].hid ELSE req'[p].hid
              IN  /\ \A r \in DOMAIN reviews :
                         reviews[r].hotel_id # Oid(h)
                             => r \in DOMAIN reviews' /\ reviews'[r] = reviews[r]
                  /\ DOMAIN reviews' \subseteq DOMAIN reviews
                  /\ (Wrote /\ resp'.status = 200)
                         => /\ resp'.op = "HotelPut"
                            /\ resp'.hid = h
                            /\ FindReviews(reviews', h) = {}]_vars

\* an update that set only the unrelated field is about to cascade over a review
C3_Witness ==
    \E p \in Procs :
        /\ At(p, "HotelPut", "cascade")
        /\ "stars" \in hotels[req[p].hid].has
        /\ FindReviews(reviews, req[p].hid) # {}

RejectedHotelCreates == {body \in HotelBodies : HotelBodyRejected(body, TRUE)}

RejectedHotelUpdates == {body \in HotelBodies : HotelBodyRejected(body, FALSE)}

RejectedReviewCreates == {body \in ReviewBodies : ReviewBodyRejected(body, TRUE)}

RejectedReviewUpdates == {body \in ReviewBodies : ReviewBodyRejected(body, FALSE)}

(* C4: hotel create, hotel update, review create and review update answer a  *)
(* request that fails validation (malformed id, unparsable body, missing     *)
(* required field, invalid email, invalid phone, rating out of range) with   *)
(* 400 and an error message, and such a request leaves hotels and reviews    *)
(* as they were.                                                             *)
C4_RejectedWritesNothing ==
    [][/\ (Wrote /\ resp'.status = 400)
              => resp'.error # "" /\ UNCHANGED <<hotels, reviews, nextId>>
       /\ \A p \in Procs :
              LET op == Target(p).op
                  hotel_id == Target(p).hid
                  review_id == Target(p).rid
              IN  /\ Moved(p, "ReviewPost", "idle", "insert") => UNCHANGED <<hotels, reviews>>
                  /\ (/\ op \in {"HotelPut", "ReviewPost", "ReviewPut"}
                      /\ \/ ~ObjectIdIsValid(hotel_id)
                         \/ op = "ReviewPut" /\ ~ObjectIdIsValid(review_id))
                         => resp'.status = 400
                  /\ op = "HotelPost" =>
                         \A body \in RejectedHotelCreates :
                             HotelPost_insert(p, body) => resp'.status = 400
                  /\ op = "HotelPut" =>
                         \A body \in RejectedHotelUpdates, strict \in BOOLEAN :
                             HotelPut_update(p, hotel_id, body, strict) => resp'.status = 400
                  /\ op = "ReviewPost" =>
                         \A body \in RejectedReviewCreates :
                             ReviewPost_insert(p, body) => resp'.status = 400
                  /\ op = "ReviewPut" =>
                         \A body \in RejectedReviewUpdates, strict \in BOOLEAN :
                             ReviewPut_update(p, hotel_id, review_id, body, strict)
                                 => resp'.status = 400]_vars

\* a hotel create was refused for its phone while the store holds documents
C4_Witness ==
    /\ resp.op = "HotelPost"
    /\ resp.status = 400
    /\ resp.error = "Telefono non valido"
    /\ DOMAIN hotels # {}
    /\ DOMAIN reviews # {}

\* the ratings, in half units, of the reviews of hotel h
RatingsOf(h) == {reviews[r].rating.v : r \in FindReviews(reviews, h)}

\* a is null when h has no review, else an integer at most 1/2 from the mean
NearestToMean(a, h) ==
    LET S == FindReviews(reviews, h)
        n == Cardinality(S)
        sum == SumRating(reviews, S)
    IN  /\ (a = <<>>) <=> (S = {})
        /\ S # {} => /\ Len(a) = 1
                     /\ 2 * n * a[1] - sum <= n
                     /\ sum - 2 * n * a[1] <= n
        /\ (n = 3 /\ RatingsOf(h) = {6, 8, 10}) => a = <<4>>

C6_RatingIsInteger1To5 ==
    \A r \in DOMAIN reviews :
        /\ reviews[r].rating.t = "num"
        /\ reviews[r].rating.v \in {2, 4, 6, 8, 10}

\* review R is in revs and is a review of hotel A
Belongs(revs, R, A) == R \in DOMAIN revs /\ revs[R].hotel_id = [t |-> "oid", v |-> A]

(* C7: DELETE /hotels/{id} with a well-formed id answers 200 and never 404,  *)
(* and leaves the store as it is when nothing has that id; DELETE of a       *)
(* review with well-formed ids answers 404 exactly when no review matches    *)
(* (review id, hotel id), and after a successful one none matches, so        *)
(* repeating it gives 404 (a malformed id is answered 400 by both).          *)
C7_DeleteAsymmetry ==
    [][/\ (Wrote /\ resp'.op = "HotelDelete")
              => resp'.status = IF ObjectIdIsValid(resp'.hid) THEN 200 ELSE 400
       /\ \A p \in Procs :
              /\ \A h \in ObjectIds :
                     (/\ \/ Moved(p, "HotelDelete", "idle", "cascade") /\ req'[p].hid = h
                         \/ Moved(p, "HotelDelete", "cascade", "idle") /\ req[p].hid = h
                      /\ h \notin DOMAIN hotels
                      /\ FindReviews(reviews, h) = {})
                         => UNCHANGED <<hotels, reviews>>
       /\ (Wrote /\ resp'.op = "ReviewDelete")
              => IF ObjectIdIsValid(resp'.hid) /\ ObjectIdIsValid(resp'.rid)
                 THEN /\ resp'.status = IF Belongs(reviews, resp'.rid, resp'.hid)
                                        THEN 200 ELSE 404
                      /\ ~Belongs(reviews', resp'.rid, resp'.hid)
                      /\ resp'.status = 404 => UNCHANGED reviews
                 ELSE resp'.status = 400 /\ UNCHANGED reviews]_vars

\* a delete of a hotel id that no document ever had has answered
C7_Witness ==
    /\ resp.op = "HotelDelete"
    /\ resp.status = 200
    /\ resp.hid >= nextId
    /\ DOMAIN hotels # {}
    /\ DOMAIN reviews # {}

C9_HotelIdFromPath ==
    [][/\ \A r \in DOMAIN reviews \cap DOMAIN reviews' :
              reviews'[r].hotel_id = reviews[r].hotel_id
       /\ \A p \in Procs :
              Moved(p, "ReviewPost", "insert", "find") =>
                  \A r \in DOMAIN reviews' \ DOMAIN reviews :
                      reviews'[r].hotel_id = Oid(req[p].hid)]_vars

\* the mean of the ratings of h lies exactly halfway between two integers
Halfway(h) ==
    LET S == FindReviews(reviews, h)
    IN  S # {} /\ SumRating(reviews, S) % (2 * Cardinality(S)) = Cardinality(S)

\* the even one of the two integers around the mean
EvenNeighbour(h) ==
    LET S == FindReviews(reviews, h)
        k == SumRating(reviews, S) \div (2 * Cardinality(S))
    IN  IF k % 2 = 0 THEN k ELSE k + 1

Listed(r) == {r.hotels[i].id : i \in DOMAIN r.hotels}

====
